---- MODULE Spec2Model ----
(***************************************************************************)
(* A model of ego.py: the memcache read-through decorator (cacheable),     *)
(* the FriendFeed profile service, the CSE pattern generator, the per-user *)
(* view handlers and the URL dispatcher.                                   *)
(*                                                                         *)
(* Python strings are sequences of one-character strings, so that lower(), *)
(* islower(), startswith(), escape() and the regular expression are        *)
(* computed character by character.                                        *)
(*                                                                         *)
(* A Python call is modelled by an execution context X threaded through    *)
(* it: X.mc is the memcache contents, X.log the externally visible events  *)
(* so far (cache operations, URL fetches, template renderings, invocations *)
(* of wrapped functions), X.addok whether the cache backend accepts        *)
(* writes during the call, X.exc the exception in flight ("none" when the  *)
(* call returned) and X.val the returned value.                            *)
(***************************************************************************)
EXTENDS Integers, Sequences, FiniteSets, TLC

VARIABLES memcache, dispatcher, procs, last, prev, world

vars == <<memcache, dispatcher, procs, last, prev, world>>

(***************************************************************************)
(* Bounds of the model.                                                    *)
(***************************************************************************)
MaxOps == 2
MaxCallers == 2
MaxTailLen == 3
MaxRoutes == 2

(***************************************************************************)
(* Program constants.                                                      *)
(***************************************************************************)
CACHE_EXPIRATION == 3600

MODULE_NAME == <<"e", "g", "o">>

(***************************************************************************)
(* Python values.                                                          *)
(***************************************************************************)
None == [t |-> "None"]

\* a Python str
Str(s) == [t |-> "str", s |-> s]

\* bool(v): None, the empty string and the empty mapping are falsy; response
\* objects, non-empty strings and non-empty mappings are truthy.
Truthy(v) ==
    CASE v.t = "None" -> FALSE
      [] v.t = "str" -> v.s # <<>>
      [] v.t = "dict" -> v.keys # {}
      [] OTHER -> TRUE

(***************************************************************************)
(* Strings.                                                                *)
(***************************************************************************)
LowerLetters ==
    {"a", "b", "c", "d", "e", "f", "g", "h", "i", "j", "k", "l", "m", "n", "o", "p",
     "q", "r", "s", "t", "u", "v", "w", "x", "y", "z"}

UpperLetters ==
    {"A", "B", "C", "D", "E", "F", "G", "H", "I", "J", "K", "L", "M", "N", "O", "P",
     "Q", "R", "S", "T", "U", "V", "W", "X", "Y", "Z"}

Digits == {"0", "1", "2", "3", "4", "5", "6", "7", "8", "9"}

\* [a-zA-Z0-9]
AlphaNum(c) == c \in LowerLetters \cup UpperLetters \cup Digits

\* [\w\-]
WordOrHyphen(c) == AlphaNum(c) \/ c = "_" \/ c = "-"

RECURSIVE Concat(_)
\* ''.join(parts)
Concat(parts) == IF parts = <<>> THEN <<>> ELSE Head(parts) \o Concat(Tail(parts))

\* s.startswith(prefix)
startswith(s, prefix) ==
    Len(s) >= Len(prefix) /\ SubSeq(s, 1, Len(prefix)) = prefix

\* s.endswith(suffix)
endswith(s, suffix) ==
    Len(s) >= Len(suffix) /\ SubSeq(s, Len(s) - Len(suffix) + 1, Len(s)) = suffix

\* c in s
contains(s, c) == \E i \in DOMAIN s : s[i] = c

\* c.lower()
lower_char(c) ==
    CASE c = "A" -> "a" [] c = "B" -> "b" [] c = "C" -> "c" [] c = "D" -> "d"
      [] c = "E" -> "e" [] c = "F" -> "f" [] c = "G" -> "g" [] c = "H" -> "h"
      [] c = "I" -> "i" [] c = "J" -> "j" [] c = "K" -> "k" [] c = "L" -> "l"
      [] c = "M" -> "m" [] c = "N" -> "n" [] c = "O" -> "o" [] c = "P" -> "p"
      [] c = "Q" -> "q" [] c = "R" -> "r" [] c = "S" -> "s" [] c = "T" -> "t"
      [] c = "U" -> "u" [] c = "V" -> "v" [] c = "W" -> "w" [] c = "X" -> "x"
      [] c = "Y" -> "y" [] c = "Z" -> "z" [] OTHER -> c

\* s.lower()
lower(s) == [i \in DOMAIN s |-> lower_char(s[i])]

\* s.islower(): no uppercase character and at least one cased character
islower(s) ==
    /\ \A i \in DOMAIN s : s[i] \notin UpperLetters
    /\ \E i \in DOMAIN s : s[i] \in LowerLetters

(***************************************************************************)
(* Execution contexts.                                                     *)
(***************************************************************************)
Ctx(mc, addok) == [mc |-> mc, log |-> <<>>, addok |-> addok, exc |-> "none", val |-> None]

Event(op, key) == [op |-> op, key |-> key]

Logged(x, op, key) == [x EXCEPT !.log = Append(@, Event(op, key))]

Return(x, v) == [x EXCEPT !.exc = "none", !.val = v]

Raise(x, e) == [x EXCEPT !.exc = e, !.val = None]

Ops(log) == {log[i].op : i \in DOMAIN log}

\* the element of a one-element set: Only({e(v) : v \in {d}}) is e with v bound
\* to the value of d, which is computed once
Only(S) == CHOOSE v \in S : TRUE

Count(log, op) == Cardinality({i \in DOMAIN log : log[i].op = op})

(***************************************************************************)
(* The memcache service, as the decorator uses it.                         *)
(***************************************************************************)
\* memcache.get(key): the stored value, or None when the key is absent
memcache_get(mc, key) == IF key \in DOMAIN mc THEN mc[key] ELSE None

\* memcache.add(key, value, time): stores only when the key is absent and the
\* backend accepts the write; the returned flag says whether it stored.
memcache_add_ok(mc, key, ok) == ok /\ key \notin DOMAIN mc

memcache_add(mc, key, value, ok) ==
    IF memcache_add_ok(mc, key, ok) THEN (key :> value) @@ mc ELSE mc

\* an entry leaves the cache when its TTL runs out
memcache_expire(mc, key) == [k \in DOMAIN mc \ {key} |-> mc[k]]

\* memcache.flush_all()
memcache_flush_all(mc) == << >>

(***************************************************************************)
(* cacheable(keygen, expiration): the decorator.                           *)
(***************************************************************************)
\* "if not expiration": the cache is not used at all
no_cache(expiration) == expiration = 0

\* a bug: the key is the lowercased path
RequestKeyMutant(request) == lower(request.path)

\* the path request_keygen returns as the key of a view's response
request_key(request) == request.path

\* request_keygen(request): the request's path, or ServerError
request_keygen(x, request) ==
    IF request.t = "None" \/ request.path = <<>>
    THEN Raise(x, "ServerError")
    ELSE Return(x, Str(request_key(request)))

\* the local key: keygen(*args) when a keygen is supplied, else args[0]
local_key(x, keygen, args) ==
    IF keygen = "request_keygen"
    THEN request_keygen(x, args[1])
    ELSE Return(x, args[1])

\* '%s:%s:%s' % (f.__module__, f.__name__, local_key)
global_key(fname, lkey) == <<MODULE_NAME, fname, lkey.s>>

\* "if result:" after memcache.get
CacheHitMutant(result) == FALSE

cache_hit(result) == Truthy(result)

\* "if result:" after f returned
ShouldStoreMutant(result) == TRUE

should_store(result) == Truthy(result)

\* call, up to the point where f has to be invoked: .pending says that f is to
\* be invoked in context .x (and .key is the global key, when the cache is used)
call_lookup(x, fname, keygen, expiration, args) ==
    IF no_cache(expiration)
    THEN [pending |-> TRUE, cached |-> FALSE, key |-> <<>>, x |-> x]
    ELSE LET k == local_key(x, keygen, args)
         IN IF k.exc # "none"
            THEN [pending |-> FALSE, cached |-> FALSE, key |-> <<>>, x |-> k]
            ELSE LET gk == global_key(fname, k.val)
                     x1 == Logged(x, "memcache.get", gk)
                     result == memcache_get(x.mc, gk)
                 IN IF cache_hit(result)
                    THEN [pending |-> FALSE, cached |-> TRUE, key |-> gk,
                          x |-> Return(x1, result)]
                    ELSE [pending |-> TRUE, cached |-> TRUE, key |-> gk, x |-> x1]

\* call, after f returned or raised in context r
call_store(pre, r) ==
    IF ~pre.cached \/ r.exc # "none" \/ ~should_store(r.val)
    THEN r
    ELSE [Logged(r, "memcache.add", pre.key) EXCEPT
              !.mc = memcache_add(r.mc, pre.key, r.val, r.addok)]

(***************************************************************************)
(* SpecCache: one caller after another calls functions wrapped by          *)
(* cacheable; entries expire and the cache is flushed at any time.         *)
(***************************************************************************)
\* the wrapped functions: @cacheable(), @cacheable(keygen=request_keygen) and
\* @cacheable(expiration=0)
Wrapped ==
    { [name |-> "f", keygen |-> "none", expiration |-> CACHE_EXPIRATION],
      [name |-> "g", keygen |-> "request_keygen", expiration |-> CACHE_EXPIRATION],
      [name |-> "h", keygen |-> "none", expiration |-> 0] }

Request(path) == [t |-> "Request", path |-> path]

\* the first positional argument of a call
ArgsOf(w) ==
    IF w.keygen = "request_keygen"
    THEN {Request(<<"/">>), Request(<<>>)}
    ELSE {Str(<<"j">>), Str(<<"k">>)}

\* what the wrapped function does when it is invoked: it returns a truthy or a
\* falsy value, or raises
FOutcomes ==
    { [exc |-> "none", val |-> Str(<<"v">>)], [exc |-> "none", val |-> Str(<<"w">>)],
      [exc |-> "none", val |-> Str(<<>>)], [exc |-> "none", val |-> None],
      [exc |-> "Exception", val |-> None] }

\* f(*args, **kwargs)
wrapped_f(x, fname, fres) ==
    [Logged(x, "invoke", <<MODULE_NAME, fname, <<>>>>) EXCEPT !.exc = fres.exc, !.val = fres.val]

\* the decorated function
cached_f(x, w, arg, fres) ==
    Only({ IF pre.pending THEN call_store(pre, wrapped_f(pre.x, w.name, fres)) ELSE pre.x :
           pre \in {call_lookup(x, w.name, w.keygen, w.expiration, <<arg>>)} })

\* the global key a recorded call derived
KeyOf(c) == global_key(c.w.name, local_key(Ctx(<< >>, TRUE), c.w.keygen, <<c.arg>>).val)

\* the recorded call missed, computed a truthy result and stored it
MissedAndStored(c) ==
    /\ c.op = "call"
    /\ c.w.expiration # 0
    /\ local_key(Ctx(<< >>, TRUE), c.w.keygen, <<c.arg>>).exc = "none"
    /\ KeyOf(c) \notin DOMAIN c.before
    /\ Count(c.x.log, "invoke") = 1
    /\ c.x.exc = "none" /\ Truthy(c.x.val)
    /\ KeyOf(c) \in DOMAIN c.x.mc /\ c.x.mc[KeyOf(c)] = c.x.val

SameCall(c, d) == c.op = "call" /\ d.op = "call" /\ c.w = d.w /\ c.arg = d.arg

NoOp == [op |-> "none"]

\* what is remembered of the call before the last one
Summary(c) ==
    IF c.op = "call"
    THEN [op |-> "call", w |-> c.w, arg |-> c.arg, stored |-> MissedAndStored(c),
          val |-> c.x.val]
    ELSE [op |-> c.op]

CacheInit ==
    /\ memcache = << >>
    /\ last = NoOp
    /\ prev = NoOp
    /\ dispatcher = << >>
    /\ procs = << >>
    /\ world = << >>

CacheCall ==
    \E w \in Wrapped, fres \in FOutcomes, addok \in BOOLEAN :
      \E arg \in ArgsOf(w) :
        \E r \in {cached_f(Ctx(memcache, addok), w, arg, fres)} :
           /\ memcache' = r.mc
           /\ last' = [op |-> "call", w |-> w, arg |-> arg, fres |-> fres,
                       before |-> memcache, x |-> r]
           /\ prev' = Summary(last)
           /\ UNCHANGED <<dispatcher, procs, world>>

CacheExpire ==
    \E key \in DOMAIN memcache :
        /\ memcache' = memcache_expire(memcache, key)
        /\ last' = [op |-> "expire"]
        /\ prev' = Summary(last)
        /\ UNCHANGED <<dispatcher, procs, world>>

CacheFlush ==
    /\ memcache # << >>
    /\ memcache' = memcache_flush_all(memcache)
    /\ last' = [op |-> "flush"]
    /\ prev' = Summary(last)
    /\ UNCHANGED <<dispatcher, procs, world>>

CacheNext == CacheCall \/ CacheExpire \/ CacheFlush

SpecCache == CacheInit /\ [][CacheNext]_vars

\* C1: a call that missed, computed a truthy result and stored it is followed,
\* with no expiry or flush in between, by a call with the same arguments that
\* returns the cached value without invoking the wrapped function.
C1_RoundTrip ==
    (SameCall(prev, last) /\ prev.stored) =>
        /\ last.x.exc = "none"
        /\ last.x.val = prev.val
        /\ Count(last.x.log, "invoke") = 0

C1_Witness ==
    /\ SameCall(prev, last) /\ prev.stored
    /\ last.fres.exc = "none" /\ last.fres.val # prev.val
    /\ last.x.val = prev.val

\* the recorded call derived a key and found no truthy entry under it
Missed(c) ==
    /\ local_key(Ctx(<< >>, TRUE), c.w.keygen, <<c.arg>>).exc = "none"
    /\ ~Truthy(memcache_get(c.before, KeyOf(c)))

Callers == 1..MaxCallers

ConcKey == global_key("f", Str(<<"k">>))

\* what an invocation of the wrapped function returns
ConcValues == {Str(<<"v">>), Str(<<"w">>), Str(<<>>)}

Idle == [pc |-> "idle", result |-> None, found |-> None, own |-> None, returned |-> None]

ConcInit ==
    /\ memcache = << >>
    /\ procs = [p \in Callers |-> Idle]
    /\ world = {}
    /\ last = NoOp
    /\ prev = NoOp
    /\ dispatcher = << >>

\* a caller enters call: the TTL is non-zero and the key is derived
ConcBegin(p) ==
    /\ procs[p].pc \in {"idle", "done", "raised"}
    /\ procs' = [procs EXCEPT ![p] = [Idle EXCEPT !.pc = "get"]]
    /\ UNCHANGED <<memcache, world, last, prev, dispatcher>>

\* result = memcache.get(global_key); if result: ...
ConcGet(p) ==
    /\ procs[p].pc = "get"
    /\ LET result == memcache_get(memcache, ConcKey)
       IN procs' = [procs EXCEPT ![p].result = result,
                                 ![p].found = result,
                                 ![p].pc = IF cache_hit(result) THEN "return" ELSE "invoke"]
    /\ UNCHANGED <<memcache, world, last, prev, dispatcher>>

\* result = f(*args, **kwargs); if result: ...
ConcInvoke(p) ==
    /\ procs[p].pc = "invoke"
    /\ \/ \E v \in ConcValues :
            /\ procs' = [procs EXCEPT ![p].result = v,
                                      ![p].own = v,
                                      ![p].pc = IF should_store(v) THEN "add" ELSE "return"]
            /\ world' = world \cup {v}
       \/ /\ procs' = [procs EXCEPT ![p].pc = "raised"]
          /\ world' = world
    /\ UNCHANGED <<memcache, last, prev, dispatcher>>

\* a bug: memcache.set in place of memcache.add
ConcAddSet(p) ==
    /\ procs[p].pc = "add"
    /\ memcache' = (ConcKey :> procs[p].result) @@ memcache
    /\ procs' = [procs EXCEPT ![p].pc = "return"]
    /\ UNCHANGED <<world, last, prev, dispatcher>>

\* if not memcache.add(global_key, result, expiration): logging.warning(...)
ConcAdd(p) ==
    /\ procs[p].pc = "add"
    /\ \E ok \in BOOLEAN :
          memcache' = memcache_add(memcache, ConcKey, procs[p].result, ok)
    /\ procs' = [procs EXCEPT ![p].pc = "return"]
    /\ UNCHANGED <<world, last, prev, dispatcher>>

\* return result
ConcReturn(p) ==
    /\ procs[p].pc = "return"
    /\ procs' = [procs EXCEPT ![p].pc = "done", ![p].returned = procs[p].result]
    /\ UNCHANGED <<memcache, world, last, prev, dispatcher>>

\* the entry's TTL runs out
ConcExpire ==
    /\ ConcKey \in DOMAIN memcache
    /\ memcache' = memcache_expire(memcache, ConcKey)
    /\ UNCHANGED <<procs, world, last, prev, dispatcher>>

ConcNext ==
    \/ \E p \in Callers :
          ConcBegin(p) \/ ConcGet(p) \/ ConcInvoke(p) \/ ConcAdd(p) \/ ConcReturn(p)
    \/ ConcExpire

SpecConc == ConcInit /\ [][ConcNext]_vars

\* the entry is absent or a value some invocation returned; a finished caller
\* returned what it found in the cache or what it computed itself
ConcEntryInv ==
    /\ ConcKey \in DOMAIN memcache => memcache[ConcKey] \in world
    /\ \A p \in Callers :
          procs[p].pc = "done" =>
              \/ Truthy(procs[p].found) /\ procs[p].returned = procs[p].found
              \/ ~Truthy(procs[p].found) /\ procs[p].returned = procs[p].own

\* a caller's store on a key that is present changes nothing and the caller goes
\* on to return
ConcLostStore ==
    \A p \in Callers :
        (procs[p].pc = "add" /\ procs'[p].pc # "add" /\ ConcKey \in DOMAIN memcache) =>
            /\ memcache' = memcache
            /\ procs'[p].pc = "return"
            /\ procs'[p].result = procs[p].result

\* C9: under every interleaving the entry is absent or a value returned by
\* some invocation, a store that loses the race neither overwrites the entry
\* nor raises, and every caller returns the value it found or computed.
C9_Race == []ConcEntryInv /\ [][ConcLostStore]_vars

\* a caller that lost the race returned its own value while the cache holds
\* another caller's
C9_Witness ==
    \E p \in Callers :
        /\ procs[p].pc = "done"
        /\ Truthy(procs[p].own)
        /\ ConcKey \in DOMAIN memcache
        /\ memcache[ConcKey] # procs[p].own
        /\ procs[p].returned = procs[p].own

(***************************************************************************)
(* profile_url_to_cse_patterns.                                            *)
(***************************************************************************)
HTTP == <<"h", "t", "t", "p", ":", "/", "/">>

\* xml.sax.saxutils.escape on one character
escape_char(c) ==
    CASE c = "&" -> <<"&", "a", "m", "p", ";">>
      [] c = "<" -> <<"&", "l", "t", ";">>
      [] c = ">" -> <<"&", "g", "t", ";">>
      [] OTHER -> <<c>>

\* escape(profile_url)
escape(s) == Concat([i \in DOMAIN s |-> escape_char(s[i])])

\* if profile_url.startswith('http://'): profile_url = profile_url[len('http://'):]
strip_http(s) == IF startswith(s, HTTP) THEN SubSeq(s, Len(HTTP) + 1, Len(s)) ELSE s

\* VALID_CSE_RE.match(s), for ^[a-zA-Z0-9][\w\-]+\.[a-zA-Z0-9][\w\-]+
VALID_CSE_RE_match(s) ==
    /\ Len(s) >= 1
    /\ AlphaNum(s[1])
    /\ \E i \in 2..Len(s) :
          /\ \A j \in 2..i : WordOrHyphen(s[j])
          /\ i + 3 <= Len(s)
          /\ s[i + 1] = "."
          /\ AlphaNum(s[i + 2])
          /\ WordOrHyphen(s[i + 3])

\* a bug: the '?' test made before the trailing-slash test
PatternsMutant(u) ==
    IF contains(u, "?") THEN <<u>>
    ELSE IF endswith(u, <<"/">>) THEN <<u, u \o <<"*">>>>
    ELSE <<u, u \o <<"/", "*">>>>

\* the patterns of a valid, escaped and stripped URL
patterns_of(u) ==
    IF endswith(u, <<"/">>) THEN <<u, u \o <<"*">>>>
    ELSE IF contains(u, "?") THEN <<u>>
    ELSE <<u, u \o <<"/", "*">>>>

profile_url_to_cse_patterns(profile_url) ==
    IF profile_url = <<>> THEN <<>>
    ELSE LET u == strip_http(escape(profile_url))
         IN IF ~VALID_CSE_RE_match(u) THEN <<>> ELSE patterns_of(u)

(***************************************************************************)
(* SpecCse: profile_url_to_cse_patterns applied to a profile URL made of   *)
(* a scheme, a host and a tail.                                            *)
(***************************************************************************)
Schemes == {<<>>, HTTP, <<"h", "t", "t", "p", "s", ":", "/", "/">>}

Hosts ==
    { <<>>, <<"a", "b", ".", "c", "d">>, <<"a", ".", "c", "d">>, <<"a", "b", ".", "c">>,
      <<"a", "b">>, <<"_", "b", ".", "c", "d">>, <<"a", "-", ".", "c", "_">>,
      <<"a", "b", ".", "-", "d">>, <<"a", "&", ".", "c", "d">>, <<"A", "1", ".", "c", "d">>,
      <<".", "a", "b", ".", "c", "d">> }

TailChars == {"a", "/", "?", "&", "<"}

RECURSIVE SeqsUpTo(_, _)
SeqsUpTo(S, n) ==
    IF n = 0 THEN {<<>>}
    ELSE LET shorter == SeqsUpTo(S, n - 1)
         IN shorter \cup {Append(t, c) : t \in shorter, c \in S}

ProfileUrls == {sc \o h \o tl : sc \in Schemes, h \in Hosts, tl \in SeqsUpTo(TailChars, MaxTailLen)}

CseInit ==
    /\ world \in ProfileUrls
    /\ last = NoOp
    /\ prev = NoOp
    /\ memcache = << >>
    /\ dispatcher = << >>
    /\ procs = << >>

CseApply ==
    /\ last.op = "none"
    /\ last' = [op |-> "cse", patterns |-> profile_url_to_cse_patterns(world)]
    /\ UNCHANGED <<world, prev, memcache, dispatcher, procs>>

CseNext == CseApply

SpecCse == CseInit /\ [][CseNext]_vars

EmptyData == [t |-> "dict", keys |-> {}]

Response(status, template_name, template_data, content_type, location) ==
    [t |-> "Response", status |-> status, template |-> template_name,
     data |-> template_data, content_type |-> content_type, location |-> location]

\* TemplateResponse(template_name, template_data, ...): renders the template
TemplateResponse(x, template_name, template_data, status, content_type) ==
    Return(Logged(x, "render", template_name),
           Response(status, template_name, template_data, content_type, <<>>))

\* webob.exc.HTTPMovedPermanently(location=...)
HTTPMovedPermanently(x, location) ==
    Return(x, Response(301, "none", EmptyData, "text/html", location))

NotFoundView(x) == TemplateResponse(x, "404.tmpl", EmptyData, 404, "text/html")

ExceptionView(x) == TemplateResponse(x, "500.tmpl", EmptyData, 500, "text/html")

(***************************************************************************)
(* Dispatcher.                                                             *)
(***************************************************************************)
ROUTE_HEAD == <<"/", "f", "r", "i", "e", "n", "d", "f", "e", "e", "d", "/">>

NICKNAME_PARAM ==
    <<"{", "n", "i", "c", "k", "n", "a", "m", "e", ":", "w", "o", "r", "d", "}">>

ROOT_PATH == <<"/">>

FAQ_PATH == <<"/", "f", "a", "q", "/">>

USER_POST_PATH == <<"/", "u", "s", "e", "r", "/">>

STATS_PATH ==
    <<"/", "s", "t", "a", "t", "s", "s", "t", "a", "t", "s", "s", "t", "a", "t", "s", "/">>

\* what follows '/friendfeed/{nickname:word}/' in the route of each per-user view
RouteSuffix(view) ==
    CASE view = "UserView" -> <<>>
      [] view = "OsdView" -> <<"o", "s", "d", "/">>
      [] view = "CrefView" -> <<"c", "r", "e", "f", "/">>
      [] view = "AnnotationView" -> <<"a", "n", "n", "o", "t", "a", "t", "i", "o", "n", "s", "/">>
      [] view = "AnnotationListView" ->
            <<"a", "n", "n", "o", "t", "a", "t", "i", "o", "n", "s", "/", "l", "i", "s", "t", "/">>

UserViews == {"UserView", "OsdView", "CrefView", "AnnotationView", "AnnotationListView"}

\* the route pattern of a per-user view
RouteOf(view) == ROUTE_HEAD \o NICKNAME_PARAM \o <<"/">> \o RouteSuffix(view)

\* Dispatcher.__init__
Dispatcher_init == [error_handler |-> None, urls |-> << >>, handle404 |-> None]

\* _make_request(f, error_handler)
make_request(f, error_handler) ==
    [t |-> "make_request", f |-> f, error_handler |-> error_handler]

\* a bug: the dispatcher's handler is not taken as the default
DefaultErrorHandlerMutant(d, error_handler) == error_handler

\* "if error_handler is None: error_handler = self._error_handler"
default_error_handler(d, error_handler) ==
    IF error_handler = None THEN d.error_handler ELSE error_handler

\* self._urls.add(path, METHOD=app)
urls_add(d, method, path, app) == [d EXCEPT !.urls = (<<method, path>> :> app) @@ @]

add_get_handler(d, path, f, error_handler) ==
    LET d1 == urls_add(d, "GET", path, make_request(f, default_error_handler(d, error_handler)))
    IN IF endswith(path, <<"/">>)
       THEN urls_add(d1, "GET", SubSeq(path, 1, Len(path) - 1),
                     [t |-> "redirect_with_slash"])
       ELSE d1

add_post_handler(d, path, f, error_handler) ==
    urls_add(d, "POST", path, make_request(f, default_error_handler(d, error_handler)))

add_not_found_handler(d, f) == [d EXCEPT !.handle404 = make_request(f, None)]

add_error_handler(d, f) == [d EXCEPT !.error_handler = make_request(f, None)]

\* init(): server_software is os.environ['SERVER_SOFTWARE']
init(server_software) ==
    LET d0 == Dispatcher_init
        d1 == IF ~startswith(server_software, <<"D", "e", "v">>)
              THEN add_error_handler(d0, "ExceptionView") ELSE d0
        d2 == add_get_handler(d1, ROOT_PATH, "HomeView", None)
        d3 == add_get_handler(d2, FAQ_PATH, "FaqView", None)
        d4 == add_post_handler(d3, USER_POST_PATH, "UserRedirectView", None)
        d5 == add_get_handler(d4, RouteOf("UserView"), "UserView", None)
        d6 == add_get_handler(d5, RouteOf("OsdView"), "OsdView", None)
        d7 == add_get_handler(d6, RouteOf("CrefView"), "CrefView", None)
        d8 == add_get_handler(d7, RouteOf("AnnotationView"), "AnnotationView", None)
        d9 == add_get_handler(d8, RouteOf("AnnotationListView"), "AnnotationListView", None)
        d10 == add_get_handler(d9, STATS_PATH, "StatsView", None)
    IN add_not_found_handler(d10, "NotFoundView")

\* _redirect_with_slash: 301 to SCRIPT_NAME + '/'
redirect_with_slash(x, path) ==
    Return(x, Response(301, "none", EmptyData, "text/html", Append(path, "/")))

\* the error handler, itself a _make_request without an error handler, called
\* with the request: the views registered as error handlers render a fixed page
error_handler_call(x, app) ==
    IF app.f = "ExceptionView" THEN ExceptionView(x) ELSE NotFoundView(x)

\* _make_request.__call__, after self._f(request, **kwargs) returned or raised
\* in context r
make_request_call(app, r) ==
    IF r.exc # "none"
    THEN IF app.error_handler # None
         THEN error_handler_call(Return(r, None), app.error_handler)
         ELSE r
    ELSE r

(***************************************************************************)
(* SpecDisp: registrations on a Dispatcher in any order, init() in either  *)
(* mode, and requests to registered routes whose handlers return or raise. *)
(* world.eh remembers, for each route, the error handler that was passed   *)
(* to its registration or, failing that, was registered on the dispatcher  *)
(* at that time; world.explicit holds the routes registered with an error  *)
(* handler of their own; world.mode is the mode init() ran in.  init() is  *)
(* the module's static initializer and runs on the fresh dispatcher.       *)
(***************************************************************************)
DispPaths == {<<"/", "p", "/">>, <<"/", "q">>}

\* the handler registered for a method
DispHandler(method) == IF method = "GET" THEN "HomeView" ELSE "UserRedirectView"

ErrorViews == {"ExceptionView", "NotFoundView"}

\* the error_handler argument of a registration: absent, or a WSGI application
ErrorHandlerArgs == {None, make_request("NotFoundView", None)}

ServerSoftware ==
    { <<"D", "e", "v", "e", "l", "o", "p", "m", "e", "n", "t", "/", "1", ".", "0">>,
      <<"G", "o", "o", "g", "l", "e", " ", "A", "p", "p", "s">> }

ManualRoutes == {k \in DOMAIN dispatcher.urls : k[2] \in DispPaths}

DispInit ==
    /\ dispatcher = Dispatcher_init
    /\ world = [mode |-> "none", eh |-> << >>, explicit |-> {}]
    /\ last = NoOp
    /\ prev = NoOp
    /\ memcache = << >>
    /\ procs = << >>

DispAddGet ==
    \E path \in DispPaths, e \in ErrorHandlerArgs :
        /\ <<"GET", path>> \notin DOMAIN dispatcher.urls
        /\ Cardinality(ManualRoutes) < MaxRoutes
        /\ dispatcher' = add_get_handler(dispatcher, path, DispHandler("GET"), e)
        /\ world' = [world EXCEPT !.eh = (<<"GET", path>> :>
                        (IF e # None THEN e ELSE dispatcher.error_handler)) @@ @,
                                  !.explicit = IF e # None THEN @ \cup {<<"GET", path>>} ELSE @]
        /\ last' = [op |-> "add_get_handler"]
        /\ UNCHANGED <<prev, memcache, procs>>

DispAddPost ==
    \E path \in DispPaths, e \in ErrorHandlerArgs :
        /\ <<"POST", path>> \notin DOMAIN dispatcher.urls
        /\ Cardinality(ManualRoutes) < MaxRoutes
        /\ dispatcher' = add_post_handler(dispatcher, path, DispHandler("POST"), e)
        /\ world' = [world EXCEPT !.eh = (<<"POST", path>> :>
                        (IF e # None THEN e ELSE dispatcher.error_handler)) @@ @,
                                  !.explicit = IF e # None THEN @ \cup {<<"POST", path>>} ELSE @]
        /\ last' = [op |-> "add_post_handler"]
        /\ UNCHANGED <<prev, memcache, procs>>

DispAddError ==
    \E f \in ErrorViews :
        /\ dispatcher' = add_error_handler(dispatcher, f)
        /\ last' = [op |-> "add_error_handler"]
        /\ UNCHANGED <<world, prev, memcache, procs>>

DispAddNotFound ==
    /\ dispatcher.handle404 = None
    /\ dispatcher' = add_not_found_handler(dispatcher, "NotFoundView")
    /\ last' = [op |-> "add_not_found_handler"]
    /\ UNCHANGED <<world, prev, memcache, procs>>

\* init() builds the global dispatcher anew
DispRunInit ==
    \E software \in ServerSoftware :
        /\ dispatcher = Dispatcher_init
        /\ dispatcher' = init(software)
        /\ world' = [mode |-> IF software[1] = "D" THEN "development" ELSE "production",
                     eh |-> [k \in {j \in DOMAIN init(software).urls :
                                      init(software).urls[j].t = "make_request"} |->
                                IF software[1] = "D" THEN None
                                ELSE make_request("ExceptionView", None)],
                     explicit |-> {}]
        /\ last' = [op |-> "init"]
        /\ UNCHANGED <<prev, memcache, procs>>

\* a request to a registered route; its handler returns a response or raises
DispRequest ==
    \E key \in DOMAIN dispatcher.urls, raises \in BOOLEAN :
        LET app == dispatcher.urls[key]
            x == Ctx(<< >>, TRUE)
            r == IF raises THEN Raise(Logged(x, "invoke", app.f), "Exception")
                 ELSE Return(Logged(x, "invoke", app.f),
                             Response(200, app.f, EmptyData, "text/html", <<>>))
        IN /\ app.t = "make_request"
           /\ last' = [op |-> "request", key |-> key, raised |-> raises,
                       registered |-> dispatcher.error_handler,
                       x |-> make_request_call(app, r)]
           /\ UNCHANGED <<dispatcher, world, prev, memcache, procs>>

\* a request to a trailing-slash route without its slash
DispRequestNoSlash ==
    \E key \in DOMAIN dispatcher.urls :
        /\ dispatcher.urls[key].t = "redirect_with_slash"
        /\ last' = [op |-> "redirect", key |-> key,
                    x |-> redirect_with_slash(Ctx(<< >>, TRUE), key[2])]
        /\ UNCHANGED <<dispatcher, world, prev, memcache, procs>>

DispNext ==
    \/ DispAddGet \/ DispAddPost \/ DispAddError \/ DispAddNotFound
    \/ DispRunInit \/ DispRequest \/ DispRequestNoSlash

SpecDisp == DispInit /\ [][DispNext]_vars

\* the page an error view renders
ErrorPage(f) ==
    IF f = "ExceptionView"
    THEN Response(500, "500.tmpl", EmptyData, "text/html", <<>>)
    ELSE Response(404, "404.tmpl", EmptyData, "text/html", <<>>)

\* C6 as stated, for the routes registered without an error handler of their
\* own: a raising handler is answered by the error handler when one is
\* registered on the dispatcher, and its exception propagates when none is.
C6_AnyOrder ==
    (last.op = "request" /\ last.raised /\ last.key \notin world.explicit) =>
        IF last.registered # None
        THEN last.x.exc = "none" /\ last.x.val = ErrorPage(last.registered.f)
        ELSE last.x.exc = "Exception"

\* C6, amended: a raising handler is answered by the error handler that was
\* passed to the route's registration or, failing that, was registered on the
\* dispatcher when the route was registered; when there was none, the exception
\* propagates, whatever is registered later. After init() every route of init
\* answers with the 500 page in production and propagates in development.
C6_AtRegistration ==
    (last.op = "request" /\ last.raised) =>
        /\ IF world.eh[last.key] # None
           THEN last.x.exc = "none" /\ last.x.val = ErrorPage(world.eh[last.key].f)
           ELSE last.x.exc = "Exception"
        /\ (world.mode = "production" /\ last.key[2] \notin DispPaths) =>
              last.x.exc = "none" /\ last.x.val = ErrorPage("ExceptionView")
        /\ (world.mode = "development" /\ last.key[2] \notin DispPaths) =>
              last.x.exc = "Exception"

\* a route registered before the error handler: the exception propagates
C6_Witness ==
    /\ last.op = "request" /\ last.raised
    /\ last.registered # None
    /\ last.key \notin world.explicit
    /\ world.eh[last.key] = None
    /\ last.x.exc = "Exception"

(***************************************************************************)
(* The upstream services and the profile service.  world.profile and       *)
(* world.annotations are the responses of the FriendFeed API and of the    *)
(* annotations host.                                                       *)
(***************************************************************************)
PROFILE_URL_HEAD ==
    <<"h", "t", "t", "p", ":", "/", "/", "f", "r", "i", "e", "n", "d", "f", "e", "e", "d",
      ".", "c", "o", "m", "/", "a", "p", "i", "/", "u", "s", "e", "r", "/">>

PROFILE_URL_TAIL ==
    <<"/", "p", "r", "o", "f", "i", "l", "e", "?", "i", "n", "c", "l", "u", "d", "e", "=",
      "n", "a", "m", "e", ",", "n", "i", "c", "k", "n", "a", "m", "e", ",", "s", "e", "r",
      "v", "i", "c", "e", "s">>

ANNOTATIONS_URL_HEAD ==
    <<"h", "t", "t", "p", ":", "/", "/", "e", "g", "o", "-", "e", "g", "o", ".", "a", "p",
      "p", "s", "p", "o", "t", ".", "c", "o", "m", "/", "f", "r", "i", "e", "n", "d", "f",
      "e", "e", "d", "/">>

ANNOTATIONS_URL_TAIL ==
    <<"/", "a", "n", "n", "o", "t", "a", "t", "i", "o", "n", "s", "/", "l", "i", "s", "t",
      "/">>

DOC_FULL ==
    <<"{", "\"", "n", "a", "m", "e", "\"", ":", "\"", "N", "\"", ",", "\"", "s", "e", "r",
      "v", "i", "c", "e", "s", "\"", ":", "[", "{", "\"", "p", "r", "o", "f", "i", "l", "e",
      "U", "r", "l", "\"", ":", "\"", "h", "t", "t", "p", ":", "/", "/", "a", "b", ".", "c",
      "d", "/", "\"", "}", "]", "}">>

DOC_NICKNAME_ONLY ==
    <<"{", "\"", "n", "i", "c", "k", "n", "a", "m", "e", "\"", ":", "\"", "n", "\"", "}">>

DOC_EMPTY_OBJECT == <<"{", "}">>

DOC_NOT_JSON == <<"<", "h", "t", "m", "l", ">">>

DOC_ANNOTATIONS == <<"<", "A", "n", "n", "o", "t", "a", "t", "i", "o", "n", "s", "/", ">">>

\* the response object of urlfetch.fetch
FetchResult(status_code, content) ==
    [t |-> "fetch", status_code |-> status_code, content |-> content]

\* urlfetch.fetch(url)
urlfetch_fetch(x, url) ==
    Return(Logged(x, "urlfetch", url),
           IF startswith(url, PROFILE_URL_HEAD) THEN world.profile ELSE world.annotations)

\* @cacheable() get_url(url)
get_url(x, url) ==
    Only({ IF pre.pending THEN call_store(pre, urlfetch_fetch(pre.x, url)) ELSE pre.x :
           pre \in {call_lookup(x, "get_url", "none", CACHE_EXPIRATION, <<Str(url)>>)} })

\* simplejson.loads on the documents the upstream sends; anything else is not
\* JSON and raises ValueError
simplejson_loads(x, doc) ==
    CASE doc = DOC_EMPTY_OBJECT -> Return(x, [t |-> "dict", keys |-> {}])
      [] doc = DOC_NICKNAME_ONLY ->
            Return(x, [t |-> "dict", keys |-> {"nickname"}, nickname |-> Str(<<"n">>)])
      [] doc = DOC_FULL ->
            Return(x, [t |-> "dict", keys |-> {"name", "services"}, name |-> Str(<<"N">>),
                       services |-> <<[t |-> "dict", keys |-> {"profileUrl"},
                                       profileUrl |-> HTTP \o <<"a", "b", ".", "c", "d", "/">>]>>])
      [] OTHER -> Raise(x, "ValueError")

\* an exception with its message
RaiseMsg(x, e, message) == [x EXCEPT !.exc = e, !.val = [t |-> "message", text |-> message]]

\* a bug: 404 reported as a server error
StatusErrorMutant(x, status_code) ==
    IF status_code = 401
    THEN RaiseMsg(x, "UserError", "User %s is private")
    ELSE IF status_code # 200
    THEN RaiseMsg(x, "ServerError", "Unknown friendfeed code")
    ELSE x

\* the status tests of get_friendfeed_profile; 'Unknown friendfeed code' %
\* result.status_code has no conversion for its argument and raises TypeError
\* before ServerError is built
status_error(x, status_code) ==
    IF status_code = 404
    THEN RaiseMsg(x, "UserError", "User %s not found")
    ELSE IF status_code = 401
    THEN RaiseMsg(x, "UserError", "User %s is private")
    ELSE IF status_code # 200
    THEN RaiseMsg(x, "TypeError", "not all arguments converted during string formatting")
    ELSE x

\* a bug: the nickname is not checked
NicknameMissingMutant(nickname) == FALSE

\* "if not nickname:"
nickname_missing(nickname) == nickname = <<>>

\* the body of get_friendfeed_profile
get_friendfeed_profile_f(x, nickname) ==
    IF nickname_missing(nickname)
    THEN RaiseMsg(Logged(x, "invoke", "get_friendfeed_profile"), "UserError", "nickname required")
    ELSE Only({
        IF status_error(result, result.val.status_code).exc # "none"
        THEN status_error(result, result.val.status_code)
        ELSE IF result.val.content = <<>>
        THEN RaiseMsg(result, "ServerError", "could not load friendfeed user %s")
        ELSE IF simplejson_loads(result, result.val.content).exc # "none"
        THEN simplejson_loads(result, result.val.content)
        ELSE IF ~Truthy(simplejson_loads(result, result.val.content).val)
        THEN RaiseMsg(result, "ServerError", "could not parse friendfeed user %s")
        ELSE simplejson_loads(result, result.val.content) :
        result \in {get_url(Logged(x, "invoke", "get_friendfeed_profile"),
                            PROFILE_URL_HEAD \o nickname \o PROFILE_URL_TAIL)} })

\* @cacheable() get_friendfeed_profile(nickname)
get_friendfeed_profile(x, nickname) ==
    Only({ IF pre.pending
           THEN Only({call_store(pre, r) : r \in {get_friendfeed_profile_f(pre.x, nickname)}})
           ELSE pre.x :
           pre \in {call_lookup(x, "get_friendfeed_profile", "none", CACHE_EXPIRATION,
                                <<Str(nickname)>>)} })

\* get_cse_names(friendfeed_profile)
get_cse_names(friendfeed_profile) ==
    IF "services" \notin friendfeed_profile.keys THEN <<>>
    ELSE Concat([i \in DOMAIN friendfeed_profile.services |->
                    IF "profileUrl" \notin friendfeed_profile.services[i].keys THEN <<>>
                    ELSE profile_url_to_cse_patterns(friendfeed_profile.services[i].profileUrl)])

\* get_friendfeed_name(friendfeed_profile, friendfeed_name)
get_friendfeed_name(friendfeed_profile, friendfeed_name) ==
    IF "name" \in friendfeed_profile.keys THEN friendfeed_profile.name
    ELSE IF "nickname" \in friendfeed_profile.keys THEN friendfeed_profile.nickname
    ELSE Str(friendfeed_name)

\* get_annotations(nickname): the content on status 200; otherwise the function
\* assigns a local and falls off its end, returning None
get_annotations(x, nickname) ==
    Only({ IF result.val.status_code # 200 THEN Return(result, None)
           ELSE Return(result, Str(result.val.content)) :
           result \in {get_url(x, ANNOTATIONS_URL_HEAD \o nickname \o ANNOTATIONS_URL_TAIL)} })

(***************************************************************************)
(* The per-user view handlers.                                             *)
(***************************************************************************)
\* the template and content type of each view
TemplateOf(view) ==
    CASE view = "UserView" -> "user.tmpl"
      [] view = "OsdView" -> "osd.tmpl"
      [] view = "CrefView" -> "cref.tmpl"
      [] view = "AnnotationView" -> "annotations.tmpl"
      [] view = "AnnotationListView" -> "annotation_list.tmpl"

ContentTypeOf(view) ==
    CASE view = "UserView" -> "text/html"
      [] view = "OsdView" -> "application/opensearchdescription+xml"
      [] OTHER -> "text/xml"

\* UserView and OsdView, after the redirect test
NameView_f(x, view, nickname) ==
    Only({ IF p.exc # "none" THEN p
           ELSE TemplateResponse(p, TemplateOf(view),
                    [nickname |-> Str(nickname),
                     name |-> get_friendfeed_name(p.val, nickname)],
                    200, ContentTypeOf(view)) :
           p \in {get_friendfeed_profile(x, nickname)} })

\* a bug: every exception is caught, not UserError alone
CrefCatchesMutant(e) == TRUE

\* "except UserError:" of CrefView and AnnotationView
catches(e) == e = "UserError"

\* CrefView, after the redirect test
CrefView_f(x, nickname) ==
    Only({ Only({ IF a.exc = "none"
                  THEN TemplateResponse(a, "cref.tmpl",
                           [nickname |-> Str(nickname),
                            name |-> get_friendfeed_name(p.val, nickname),
                            annotations |-> a.val],
                           200, ContentTypeOf("CrefView"))
                  ELSE IF catches(a.exc)
                  THEN TemplateResponse(Return(a, None), "cref.tmpl",
                           [nickname |-> None, name |-> None, annotations |-> Str(<<>>)],
                           200, ContentTypeOf("CrefView"))
                  ELSE a :
                  a \in {IF p.exc # "none" THEN p ELSE get_annotations(p, nickname)} }) :
           p \in {get_friendfeed_profile(x, nickname)} })

\* AnnotationView, after the redirect test
AnnotationView_f(x, nickname) ==
    Only({ IF a.exc = "none"
           THEN TemplateResponse(a, "annotations.tmpl", [annotations |-> a.val],
                    200, ContentTypeOf("AnnotationView"))
           ELSE IF catches(a.exc)
           THEN TemplateResponse(Return(a, None), "annotations.tmpl",
                    [annotations |-> Str(<<>>)], 200, ContentTypeOf("AnnotationView"))
           ELSE a :
           a \in {get_annotations(x, nickname)} })

\* AnnotationListView, after the redirect test
AnnotationListView_f(x, nickname) ==
    Only({ IF p.exc # "none" THEN p
           ELSE TemplateResponse(p, "annotation_list.tmpl",
                    [nickname |-> Str(nickname), cse_names |-> get_cse_names(p.val)],
                    200, ContentTypeOf("AnnotationListView")) :
           p \in {get_friendfeed_profile(x, nickname)} })

\* the body of a per-user view
view_f(x, view, request, nickname) ==
    IF ~islower(request.path)
    THEN HTTPMovedPermanently(Logged(x, "invoke", view), lower(request.path))
    ELSE CASE view = "CrefView" -> CrefView_f(Logged(x, "invoke", view), nickname)
           [] view = "AnnotationView" -> AnnotationView_f(Logged(x, "invoke", view), nickname)
           [] view = "AnnotationListView" ->
                 AnnotationListView_f(Logged(x, "invoke", view), nickname)
           [] OTHER -> NameView_f(Logged(x, "invoke", view), view, nickname)

\* @cacheable(keygen=request_keygen): the decorated view
cached_view(x, view, request, nickname) ==
    Only({ IF pre.pending
           THEN Only({call_store(pre, r) : r \in {view_f(pre.x, view, request, nickname)}})
           ELSE pre.x :
           pre \in {call_lookup(x, view, "request_keygen", CACHE_EXPIRATION,
                                <<request, nickname>>)} })

(***************************************************************************)
(* SpecApp: the application after init(), in development or production,    *)
(* against one upstream world: requests to the per-user routes, direct     *)
(* calls of the views and of get_friendfeed_profile, and cache expiry.     *)
(* prev counts the operations; last holds the outcome of the last one, its *)
(* events, and whether it left the cache unchanged.                        *)
(***************************************************************************)
Nicknames == {<<"b", "o">>, <<"B", "o">>}

ProfileResponses ==
    { FetchResult(404, DOC_NOT_JSON), FetchResult(401, DOC_NOT_JSON),
      FetchResult(500, DOC_NOT_JSON), FetchResult(200, <<>>),
      FetchResult(200, DOC_NOT_JSON), FetchResult(200, DOC_EMPTY_OBJECT),
      FetchResult(200, DOC_NICKNAME_ONLY), FetchResult(200, DOC_FULL) }

AnnotationResponses == {FetchResult(200, DOC_ANNOTATIONS), FetchResult(500, DOC_NOT_JSON)}

\* the path of a request that the view's route matches with this nickname
PathOf(view, nickname) == ROUTE_HEAD \o nickname \o <<"/">> \o RouteSuffix(view)

AppInit ==
    /\ world \in [profile : ProfileResponses, annotations : AnnotationResponses]
    /\ dispatcher \in {init(software) : software \in ServerSoftware}
    /\ memcache = << >>
    /\ last = NoOp
    /\ prev = 0
    /\ procs = << >>

\* a GET request routed by the dispatcher to a per-user view
AppRequest ==
    \E view \in UserViews, nickname \in Nicknames :
      /\ prev < MaxOps
      /\ \E path \in {PathOf(view, nickname)}, app \in {dispatcher.urls[<<"GET", RouteOf(view)>>]} :
        \E h \in {cached_view(Ctx(memcache, TRUE), view, Request(path), nickname)} :
         \E out \in {make_request_call(app, h)} :
           /\ prev' = prev + 1
           /\ memcache' = out.mc
           /\ last' = [op |-> "request", view |-> view, nickname |-> nickname,
                       path |-> path, unchanged |-> (out.mc = memcache),
                       handler |-> [exc |-> h.exc, val |-> h.val],
                       x |-> [exc |-> out.exc, val |-> out.val, log |-> out.log]]
           /\ UNCHANGED <<dispatcher, world, procs>>

\* a direct call of a decorated view, with an empty nickname
AppCallView ==
    \E view \in UserViews :
      /\ prev < MaxOps
      /\ \E path \in {PathOf(view, <<>>)} :
        \E h \in {cached_view(Ctx(memcache, TRUE), view, Request(path), <<>>)} :
           /\ prev' = prev + 1
           /\ memcache' = h.mc
           /\ last' = [op |-> "view", view |-> view, nickname |-> <<>>,
                       path |-> path, unchanged |-> (h.mc = memcache),
                       handler |-> [exc |-> h.exc, val |-> h.val],
                       x |-> [exc |-> h.exc, val |-> h.val, log |-> h.log]]
           /\ UNCHANGED <<dispatcher, world, procs>>

\* a direct call of the decorated get_friendfeed_profile
AppGetProfile ==
    \E nickname \in Nicknames \cup {<<>>} :
      /\ prev < MaxOps
      /\ \E r \in {get_friendfeed_profile(Ctx(memcache, TRUE), nickname)} :
           /\ prev' = prev + 1
           /\ memcache' = r.mc
           /\ last' = [op |-> "profile", nickname |-> nickname,
                       unchanged |-> (r.mc = memcache),
                       x |-> [exc |-> r.exc, val |-> r.val, log |-> r.log]]
           /\ UNCHANGED <<dispatcher, world, procs>>

\* an entry's TTL runs out
AppExpire ==
    \E key \in DOMAIN memcache :
        /\ prev < MaxOps
        /\ prev' = prev + 1
        /\ memcache' = memcache_expire(memcache, key)
        /\ last' = [op |-> "expire"]
        /\ UNCHANGED <<dispatcher, world, procs>>

AppNext == AppRequest \/ AppCallView \/ AppGetProfile \/ AppExpire

SpecApp == AppInit /\ [][AppNext]_vars

ProfileKey(nickname) == <<MODULE_NAME, "get_friendfeed_profile", nickname>>

\* the last operation called get_friendfeed_profile's body with a nickname
ProfileFetched ==
    /\ last.op = "profile"
    /\ last.nickname # <<>>
    /\ \E i \in DOMAIN last.x.log : last.x.log[i] = Event("invoke", "get_friendfeed_profile")

\* C2: with a non-empty nickname, an upstream status of 404 fails with
\* UserError "not found" and 401 with UserError "private"; no profile is
\* returned and nothing is stored under the profile's own key.
C2_UserErrors ==
    (ProfileFetched /\ world.profile.status_code \in {404, 401}) =>
        /\ last.x.exc = "UserError"
        /\ last.x.val.text = IF world.profile.status_code = 404
                             THEN "User %s not found" ELSE "User %s is private"
        /\ ProfileKey(last.nickname) \notin DOMAIN memcache

C2_Witness ==
    /\ ProfileFetched /\ world.profile.status_code = 404
    /\ last.x.exc = "UserError"
    /\ Count(last.x.log, "urlfetch") = 1

\* the document parses into a non-empty profile
ParsesToProfile(doc) == doc \in {DOC_NICKNAME_ONLY, DOC_FULL}

\* C3: with a non-empty nickname, every status other than 200, 404 and 401,
\* and every status-200 body that is empty or does not parse into a non-empty
\* profile, fails with ServerError.
C3_ServerErrors ==
    (/\ ProfileFetched
     /\ \/ world.profile.status_code \notin {200, 404, 401}
        \/ world.profile.status_code = 200 /\ ~ParsesToProfile(world.profile.content)) =>
        last.x.exc = "ServerError"

\* C4 as stated: an empty nickname fails with UserError with no upstream fetch
\* and no cache operation before it, and the cache is unchanged.
C4_NoRemoteOperation ==
    (last.op = "profile" /\ last.nickname = <<>>) =>
        /\ last.x.exc = "UserError"
        /\ Ops(last.x.log) \cap {"urlfetch", "memcache.get", "memcache.add"} = {}
        /\ last.unchanged

\* C4, amended: an empty nickname fails with UserError "nickname required"
\* with no upstream fetch and no cache write; the decorator's one lookup of
\* the profile key precedes the failure and misses; the cache is unchanged.
C4_LookupOnly ==
    (last.op = "profile" /\ last.nickname = <<>>) =>
        /\ last.x.exc = "UserError"
        /\ last.x.val.text = "nickname required"
        /\ last.x.log = <<Event("memcache.get", ProfileKey(<<>>)),
                          Event("invoke", "get_friendfeed_profile")>>
        /\ last.unchanged

C4_Witness ==
    /\ last.op = "profile" /\ last.nickname = <<>>
    /\ last.x.exc = "UserError"
    /\ memcache # << >>

\* the last operation ran or replayed a per-user view
ViewOp == last.op \in {"request", "view"}

\* C5: for each per-user view and after any earlier requests, the response
\* for a path that is not all-lowercase, computed or served from the view
\* cache, is a 301 to the lowercased path, produced with no profile lookup,
\* no upstream request and no template rendering.
C5_Redirect ==
    (ViewOp /\ \E i \in DOMAIN last.path : last.path[i] \in UpperLetters) =>
        /\ last.handler.exc = "none"
        /\ last.handler.val.status = 301
        /\ last.handler.val.location = PathOf(last.view, lower(last.nickname))
        /\ last.x = [exc |-> "none", val |-> last.handler.val, log |-> last.x.log]
        /\ Ops(last.x.log) \subseteq {"memcache.get", "memcache.add", "invoke"}
        /\ \A i \in DOMAIN last.x.log :
              /\ last.x.log[i].op = "invoke" => last.x.log[i].key = last.view
              /\ last.x.log[i].op # "invoke" =>
                    last.x.log[i].key = <<MODULE_NAME, last.view, last.path>>

\* the redirect served from the view cache
C5_Witness ==
    /\ last.op = "request"
    /\ ~islower(last.path)
    /\ last.x.log = <<Event("memcache.get", <<MODULE_NAME, last.view, last.path>>)>>
    /\ last.x.val.status = 301

\* the profile lookup for the nickname fails with UserError
ProfileUserError(nickname) == nickname = <<>> \/ world.profile.status_code \in {404, 401}

\* the profile lookup for the nickname fails with ServerError
ProfileServerError(nickname) ==
    /\ nickname # <<>>
    /\ world.profile.status_code = 200
    /\ world.profile.content \in {<<>>, DOC_EMPTY_OBJECT}

\* the views that look the profile up
ProfileViews == {"UserView", "OsdView", "CrefView", "AnnotationListView"}

\* what the dispatcher answers when the view raised e
Dispatched(e) ==
    IF last.op = "view" THEN last.x.exc = e
    ELSE IF dispatcher.error_handler # None
    THEN last.x.exc = "none" /\ last.x.val = ErrorPage("ExceptionView")
    ELSE last.x.exc = e

\* the cref document with blank fields
BlankCref ==
    Response(200, "cref.tmpl", [nickname |-> None, name |-> None, annotations |-> Str(<<>>)],
             "text/xml", <<>>)

\* C10 for the views that look the profile up: on a UserError CrefView renders
\* the blank document; UserView, OsdView and AnnotationListView let it reach
\* the dispatcher's error handler; no view recovers from a ServerError.
ProfileErrorHandling ==
    (ViewOp /\ islower(last.path) /\ last.view \in ProfileViews) =>
        /\ (ProfileUserError(last.nickname) /\ last.view = "CrefView") =>
              /\ last.handler = [exc |-> "none", val |-> BlankCref]
              /\ last.x.exc = "none" /\ last.x.val = BlankCref
        /\ (ProfileUserError(last.nickname) /\ last.view # "CrefView") =>
              /\ last.handler.exc = "UserError"
              /\ Dispatched("UserError")
        /\ ProfileServerError(last.nickname) =>
              /\ last.handler.exc = "ServerError"
              /\ Dispatched("ServerError")

\* C10 as stated: also AnnotationView, when the profile lookup for the
\* nickname fails with UserError, renders its document with blank fields.
C10_BlankFields ==
    /\ ProfileErrorHandling
    /\ (ViewOp /\ islower(last.path) /\ last.view = "AnnotationView"
          /\ ProfileUserError(last.nickname)) =>
          /\ last.handler.exc = "none"
          /\ last.handler.val.template = "annotations.tmpl"
          /\ last.handler.val.data.annotations = Str(<<>>)

\* C10, amended: AnnotationView looks no profile up, so no UserError reaches
\* it; it renders the content of the annotations fetch on status 200 and
\* None otherwise.
C10_NoLookupInAnnotationView ==
    /\ ProfileErrorHandling
    /\ (ViewOp /\ islower(last.path) /\ last.view = "AnnotationView") =>
          /\ last.handler.exc = "none"
          /\ last.handler.val.template = "annotations.tmpl"
          /\ last.handler.val.data.annotations =
                IF world.annotations.status_code = 200
                THEN Str(world.annotations.content) ELSE None
          /\ \A i \in DOMAIN last.x.log :
                /\ last.x.log[i] # Event("invoke", "get_friendfeed_profile")
                /\ last.x.log[i].op = "memcache.get" =>
                      last.x.log[i].key[2] # "get_friendfeed_profile"

\* CrefView rendered the blank document after the profile lookup failed
C10_Witness ==
    /\ last.op = "request" /\ last.view = "CrefView"
    /\ ProfileUserError(last.nickname)
    /\ Count(last.x.log, "urlfetch") = 1
    /\ last.x.val = BlankCref

====
